---- MODULE Spec2Model ----
(***************************************************************************)
(* State-machine model of BPETokenizer (src/bpe_tokenizer.py).             *)
(*                                                                         *)
(* A text is a sequence of characters, each character a one-character      *)
(* string; a symbol is a non-empty text.  A Python dict is a sequence of   *)
(* [key, value] records in insertion order, because the iteration order of *)
(* self.vocab fixes the IDs and the order of word_freqs fixes the winner   *)
(* of max().  Indices i, j of the scans are the 0-based Python indices.    *)
(***************************************************************************)
EXTENDS Integers, Sequences, FiniteSets, TLC

VARIABLES
    vocab,            \* self.vocab: ordered dict symbol -> frequency
    vocab_size,       \* self.vocab_size
    encoder_dict,     \* self.encoder_dict: symbol -> ID
    decoder_dict,     \* self.decoder_dict: ID -> symbol
    pc,               \* position inside train(): "idle", "loop" or "exit"
    _temp_vocab,      \* train() local: the working copy of the table
    corpus,           \* train() local: the corpus units the passes scan
    _counted_words,   \* train() local: ordered dict word -> occurrences
    call,             \* the last call made on the tokenizer, its arguments and result
    nops              \* number of train / load calls made so far

vars == <<vocab, vocab_size, encoder_dict, decoder_dict, pc,
          _temp_vocab, corpus, _counted_words, call, nops>>

----------------------------------------------------------------------------
(* Bounds of the model *)

MaxOps == 2       \* train / load calls per behaviour
MaxGrow == 2      \* train is asked for at most this many symbols above the current size

----------------------------------------------------------------------------
(* Special symbols and the default alphabet *)

_UNK == <<"<", "|", "U", "N", "K", "|", ">">>
_PAD == <<"<", "|", "P", "A", "D", "|", ">">>
_SOS == <<"<", "|", "S", "O", "S", "|", ">">>
_EOS == <<"<", "|", "E", "O", "S", "|", ">">>

\* The part of string.ascii_letters + digits + punctuation + " " the model
\* keeps, in the order of the source: every character of the PAD and EOS
\* markers, two letters and the space.
BaseChars == <<"a", "b", "A", "D", "E", "O", "P", "S", "<", ">", "|", " ">>

\* Characters of no default alphabet (non-ASCII in the source).
ForeignChars == {"é", "ü"}

_default_chars ==
    <<_PAD>> \o [k \in 1..Len(BaseChars) |-> <<BaseChars[k]>>] \o <<_UNK, _SOS, _EOS>>

PAD_ID == 0
UNK_ID == -999
SOS_ID == -1
EOS_ID == -2

----------------------------------------------------------------------------
(* Python dict and str primitives *)

Keys(d) == {d[k].key : k \in DOMAIN d}

IndexOf(d, s) == CHOOSE k \in DOMAIN d : d[k].key = s

Get(d, s) == d[IndexOf(d, s)].value

\* d without the entry of key s
Without(d, s) == SelectSeq(d, LAMBDA e : e.key # s)

\* variant of SetItem: an existing key is deleted and inserted again, last
SetItem_reinsert(d, s, v) ==
    CHOOSE r \in {Append(Without(dd, s), [key |-> s, value |-> v]) : dd \in {d}} : TRUE

\* d[s] = v: an existing key keeps its position, a new key goes last.
\* (The accumulators of the loops are bound as dd, b by a one-element set,
\* which evaluates them once.)
SetItem(d, s, v) ==
    CHOOSE r \in {IF s \in Keys(dd) THEN [dd EXCEPT ![IndexOf(dd, s)].value = v]
                  ELSE Append(dd, [key |-> s, value |-> v]) : dd \in {d}} : TRUE

\* if s in d: d[s] += inc  else: d[s] = inc
AddItem(d, s, inc) ==
    CHOOSE r \in {IF s \in Keys(dd) THEN SetItem(dd, s, Get(dd, s) + inc)
                  ELSE SetItem(dd, s, inc) : dd \in {d}} : TRUE

\* text[i:j] for 0 <= i, 0 <= j
Slice(text, i, j) ==
    IF i >= j \/ i >= Len(text) THEN <<>>
    ELSE SubSeq(text, i + 1, IF j < Len(text) THEN j ELSE Len(text))

\* text[i:]
From(text, i) == Slice(text, i, Len(text))

startswith(text, prefix) ==
    Len(text) >= Len(prefix) /\ SubSeq(text, 1, Len(prefix)) = prefix

RECURSIVE join(_)
join(texts) == IF texts = <<>> THEN <<>> ELSE Head(texts) \o join(Tail(texts))

----------------------------------------------------------------------------
(* Table initialisation, size accounting, ID mapping *)

_set_vocab_size(self_vocab, n) ==
    IF n >= Len(self_vocab) THEN n ELSE Len(self_vocab)

RECURSIVE _init_vocab_loop(_, _)
_init_vocab_loop(elements, v) ==
    IF elements = <<>> THEN v
    ELSE _init_vocab_loop(Tail(elements), SetItem(v, Head(elements), 0))

_init_vocab == _init_vocab_loop(_default_chars, <<>>)

Specials == {_PAD, _UNK, _SOS, _EOS}

ReservedDicts ==
    [enc |-> (_EOS :> EOS_ID) @@ (_SOS :> SOS_ID) @@ (_UNK :> UNK_ID) @@ (_PAD :> PAD_ID),
     dec |-> (EOS_ID :> _EOS) @@ (SOS_ID :> _SOS) @@ (UNK_ID :> _UNK) @@ (PAD_ID :> _PAD)]

RECURSIVE _rebuild_loop(_, _, _, _)
_rebuild_loop(v, k, i, d) ==
    IF k > Len(v) THEN d
    ELSE IF v[k].key \in Specials THEN _rebuild_loop(v, k + 1, i, d)
    ELSE _rebuild_loop(v, k + 1, i + 1,
                       CHOOSE r \in {[enc |-> (v[k].key :> i) @@ dd.enc,
                                      dec |-> (i :> v[k].key) @@ dd.dec] : dd \in {d}} : TRUE)

\* the [enc, dec] pair built from the table v
_rebuild_token_dict(v) == _rebuild_loop(v, 1, 1, ReservedDicts)

RECURSIVE _update_vocab_loop(_, _, _)
_update_vocab_loop(self_vocab, ext, k) ==
    IF k > Len(ext) THEN self_vocab
    ELSE _update_vocab_loop(SetItem(self_vocab, ext[k].key, ext[k].value), ext, k + 1)

\* the table after self._update_vocab(ext)
_update_vocab_table(self_vocab, ext) == _update_vocab_loop(self_vocab, ext, 1)

\* variant of _update_vocab_dicts: the table update keeps the old dicts
_update_vocab_dicts_stale(v) == [enc |-> encoder_dict, dec |-> decoder_dict]

\* the dicts published after a table update
_update_vocab_dicts(v) == _rebuild_token_dict(v)

\* self._update_vocab(ext): table, size and both dicts
_update_vocab(ext) ==
    \E nv \in {_update_vocab_table(vocab, ext)} :
        \E d \in {_update_vocab_dicts(nv)} :
            /\ vocab' = nv
            /\ vocab_size' = _set_vocab_size(nv, Len(nv))
            /\ encoder_dict' = d.enc
            /\ decoder_dict' = d.dec

----------------------------------------------------------------------------
(* Training *)

\* _include_corpus_chars: for c in "".join(corpus)
RECURSIVE _include_corpus_chars_loop(_, _)
_include_corpus_chars_loop(self_vocab, chars) ==
    IF chars = <<>> THEN self_vocab
    ELSE LET c == <<Head(chars)>>
         IN  _include_corpus_chars_loop(AddItem(self_vocab, c, 1), Tail(chars))

_include_corpus_chars(self_vocab, corp) ==
    _include_corpus_chars_loop(self_vocab, join(corp))

\* str.split(): cut at runs of whitespace, no empty word
RECURSIVE split_loop(_, _, _, _)
split_loop(text, k, cur, out) ==
    IF k > Len(text) THEN (IF cur = <<>> THEN out ELSE Append(out, cur))
    ELSE IF text[k] = " "
         THEN split_loop(text, k + 1, <<>>, IF cur = <<>> THEN out ELSE Append(out, cur))
         ELSE split_loop(text, k + 1, Append(cur, text[k]), out)

split(text) == split_loop(text, 1, <<>>, <<>>)

\* words = []; for c in corpus: words.extend(c.split())
RECURSIVE words_of(_)
words_of(corp) ==
    IF corp = <<>> THEN <<>> ELSE split(Head(corp)) \o words_of(Tail(corp))

\* the word -> occurrences dict, in order of first occurrence
RECURSIVE count_words(_, _)
count_words(words, counted) ==
    IF words = <<>> THEN counted
    ELSE count_words(Tail(words), AddItem(counted, Head(words), 1))

\* list(d.keys())
KeyList(d) == [k \in DOMAIN d |-> d[k].key]

\* the string a scan tests and records
candidate(curr_word, next_char) == curr_word \o next_char

\* variant of scan_unit: the known-prefix test reads self.vocab, not the
\* working table
RECURSIVE scan_unit_live(_, _, _, _, _, _)
scan_unit_live(text, i, j, inc, temp, word_freqs) ==
    IF ~(j < Len(text) /\ Len(text) > 2) THEN word_freqs
    ELSE LET cand == candidate(Slice(text, i, j), <<text[j + 1]>>)
         IN  IF cand \in Keys(vocab)
             THEN scan_unit_live(text, i, j + 1, inc, temp, word_freqs)
             ELSE scan_unit_live(text, j, j + 1, inc, temp, AddItem(word_freqs, cand, inc))

\* the inner while loop over one corpus unit
RECURSIVE scan_unit(_, _, _, _, _, _)
scan_unit(text, i, j, inc, temp, word_freqs) ==
    IF ~(j < Len(text) /\ Len(text) > 2) THEN word_freqs
    ELSE LET cand == candidate(Slice(text, i, j), <<text[j + 1]>>)
         IN  IF cand \in Keys(temp)
             THEN scan_unit(text, i, j + 1, inc, temp, word_freqs)
             ELSE scan_unit(text, j, j + 1, inc, temp, AddItem(word_freqs, cand, inc))

\* for text in corpus: one pass over every unit, in order
RECURSIVE scan_corpus(_, _, _, _, _)
scan_corpus(units, k, counted, word_level, temp) ==
    IF k = 0 THEN <<>>
    ELSE scan_unit(units[k], 0, 1,
                   IF word_level THEN Get(counted, units[k]) ELSE 1,
                   temp,
                   scan_corpus(units, k - 1, counted, word_level, temp))

\* variant of max_key: the last key of the largest value
RECURSIVE max_loop_last(_, _, _)
max_loop_last(word_freqs, k, best) ==
    IF k > Len(word_freqs) THEN best
    ELSE max_loop_last(word_freqs, k + 1,
                       CHOOSE r \in {IF word_freqs[k].value >= word_freqs[b].value THEN k ELSE b
                                      : b \in {best}} : TRUE)

max_key_last(word_freqs) == word_freqs[max_loop_last(word_freqs, 2, 1)].key

\* max(word_freqs, key=word_freqs.get): the first key of the largest value
RECURSIVE max_loop(_, _, _)
max_loop(word_freqs, k, best) ==
    IF k > Len(word_freqs) THEN best
    ELSE max_loop(word_freqs, k + 1,
                  CHOOSE r \in {IF word_freqs[k].value > word_freqs[b].value THEN k ELSE b
                                 : b \in {best}} : TRUE)

max_key(word_freqs) == word_freqs[max_loop(word_freqs, 2, 1)].key

\* the candidates of the pass the training loop is about to run
PassFreqs == scan_corpus(corpus, Len(corpus), _counted_words, call.word_level, _temp_vocab)

----------------------------------------------------------------------------
(* Codec: a call returns [err, val]; err is "none" or the exception raised *)

Return(val) == [err |-> "none", val |-> val]
Raise(exc) == [err |-> exc, val |-> <<>>]

\* variant of pad: the capacity test is > instead of >=
pad_exact_fit(enc, tokens, desired_length) ==
    IF Len(tokens) + 2 > desired_length THEN Raise("ValueError")
    ELSE Return(<<enc[_SOS]>> \o tokens \o <<enc[_EOS]>>
                \o [k \in 1..(desired_length - (Len(tokens) + 2)) |-> enc[_PAD]])

\* pad(tokens, desired_length)
pad(enc, tokens, desired_length) ==
    IF Len(tokens) + 2 >= desired_length THEN Raise("ValueError")
    ELSE Return(<<enc[_SOS]>> \o tokens \o <<enc[_EOS]>>
                \o [k \in 1..(desired_length - (Len(tokens) + 2)) |-> enc[_PAD]])

\* variant of lookup: the token is read from self.vocab, not encoder_dict
lookup_in_vocab(enc, curr_word) ==
    IF curr_word \in Keys(vocab) THEN Get(vocab, curr_word) ELSE enc[_UNK]

\* try: encoder_dict[curr_word]  except KeyError: encoder_dict[UNK]
lookup(enc, curr_word) ==
    IF curr_word \in DOMAIN enc THEN enc[curr_word] ELSE enc[_UNK]

\* the while loop of encode
RECURSIVE encode_loop(_, _, _, _, _, _, _)
encode_loop(v, enc, text, i, j, end_string, tokens) ==
    IF ~(j <= Len(text)) THEN tokens
    ELSE IF startswith(From(text, i), _PAD)
         THEN encode_loop(v, enc, text, i + Len(_PAD), j, end_string, Append(tokens, enc[_PAD]))
    ELSE IF startswith(From(text, i), _EOS)
         THEN encode_loop(v, enc, text, i + Len(_EOS), j, end_string, Append(tokens, enc[_EOS]))
    ELSE LET curr_word == Slice(text, i, j)
             next_char == IF j < Len(text) THEN <<text[j + 1]>> ELSE <<>>
             at_end == end_string \/ ~(j < Len(text))
         IN  IF curr_word \o next_char # <<>>
                /\ (curr_word \o next_char \notin Keys(v) \/ at_end)
             THEN encode_loop(v, enc, text, j, j + 1, at_end,
                              Append(tokens, lookup(enc, curr_word)))
             ELSE encode_loop(v, enc, text, i, j + 1, at_end, tokens)

\* encode(text, pad_to_tokens) against the table v and the dict enc
encode(v, enc, text, pad_to_tokens) ==
    IF DOMAIN enc = {} THEN Raise("ValueError")
    ELSE LET tokens == encode_loop(v, enc, text, 0, 0, FALSE, <<>>)
         IN  IF pad_to_tokens > 0 THEN pad(enc, tokens, pad_to_tokens) ELSE Return(tokens)

\* decode(tokens): "".join(decoder_dict[t] for t in tokens)
decode(dec, tokens) ==
    IF DOMAIN dec = {} THEN Raise("ValueError")
    ELSE IF \E k \in DOMAIN tokens : tokens[k] \notin DOMAIN dec THEN Raise("KeyError")
    ELSE Return(join([k \in DOMAIN tokens |-> dec[tokens[k]]]))

----------------------------------------------------------------------------
(* Inputs *)

\* vocabularies handed to load_vocab_file / _update_vocab
ExternalVocabs ==
    { << [key |-> <<"a">>, value |-> 3], [key |-> <<"a", "<">>, value |-> 2] >>,
      << [key |-> <<"a", "é", "b">>, value |-> 1] >> }

\* corpora handed to train
Corpora ==
    { << <<"a", "a", "a", "b">> >>,
      << <<"a", "b", "b", " ", "a", "a", "b", " ", "a", "b", "b">> >>,
      << <<"é", "a">> >>,
      << <<"é", "a", "b">> >>,
      << <<"a", "<", "|", "E", "O", "S", "|", ">">> >> }

\* target sizes asked of train on a table of n symbols: one below, and above
DesiredSizes(n) == {n - 1} \cup ((n + 1)..(n + MaxGrow))

\* texts handed to encode
Texts ==
    { <<>>,
      <<"a">>,
      <<"a", "b">>,
      <<"a", "a", "a", "b">>,
      <<"é">>,
      <<"é", "a">>,
      <<"a", "é">>,
      <<"a", "é", "b">>,
      <<"é", "ü">>,
      <<"é", "é">>,
      _EOS,
      <<"a">> \o _EOS \o <<"b">>,
      _EOS \o <<"é">>,
      _PAD \o <<"a">> \o _EOS }

\* pad_to_tokens values handed to encode
PadTos == {0, 4}

\* token lists and lengths handed to pad
TokenLists == {<<>>, <<1, 2>>}
PadLengths == 0..5

NoCall == [op |-> "init"]

----------------------------------------------------------------------------
(* Behaviour *)

Init ==
    /\ vocab = _init_vocab
    /\ vocab_size = _set_vocab_size(_init_vocab, Len(_init_vocab))
    /\ encoder_dict = _rebuild_token_dict(_init_vocab).enc
    /\ decoder_dict = _rebuild_token_dict(_init_vocab).dec
    /\ pc = "idle"
    /\ _temp_vocab = <<>>
    /\ corpus = <<>>
    /\ _counted_words = <<>>
    /\ call = NoCall
    /\ nops = 0

\* load_vocab_file(path) with the file holding ext
Load(ext) ==
    /\ pc = "idle"
    /\ nops < MaxOps
    /\ _update_vocab(ext)
    /\ call' = [op |-> "load", vocab |-> ext]
    /\ nops' = nops + 1
    /\ UNCHANGED <<pc, _temp_vocab, corpus, _counted_words>>

\* train(corp, desired_vocab_size, word_level) up to the merge loop (lines 177-192)
TrainBegin(corp, desired_vocab_size, word_level) ==
    /\ pc = "idle"
    /\ nops < MaxOps
    /\ _temp_vocab' = vocab
    /\ vocab_size' = _set_vocab_size(vocab, desired_vocab_size)
    /\ vocab' = _include_corpus_chars(vocab, corp)
    /\ _counted_words' = IF word_level THEN count_words(words_of(corp), <<>>) ELSE <<>>
    /\ corpus' = IF word_level THEN KeyList(count_words(words_of(corp), <<>>)) ELSE corp
    /\ call' = [op |-> "train", corpus |-> corp, desired_vocab_size |-> desired_vocab_size,
                word_level |-> word_level, len0 |-> Len(vocab)]
    /\ nops' = nops + 1
    /\ pc' = "loop"
    /\ UNCHANGED <<encoder_dict, decoder_dict>>

\* one iteration of the merge loop (lines 194-223)
TrainPass ==
    /\ pc = "loop"
    /\ Len(_temp_vocab) < call.desired_vocab_size
    /\ \E word_freqs \in {PassFreqs} :
           IF word_freqs = <<>>
           THEN /\ vocab_size' = _set_vocab_size(vocab, Len(_temp_vocab))
                /\ pc' = "exit"
                /\ UNCHANGED _temp_vocab
           ELSE \E best_pair_str \in {max_key(word_freqs)} :
                    /\ _temp_vocab' = SetItem(_temp_vocab, best_pair_str,
                                              Get(word_freqs, best_pair_str))
                    /\ UNCHANGED <<vocab_size, pc>>
    /\ UNCHANGED <<vocab, encoder_dict, decoder_dict, corpus, _counted_words, call, nops>>

\* the loop condition fails (line 194)
TrainLoopEnd ==
    /\ pc = "loop"
    /\ ~(Len(_temp_vocab) < call.desired_vocab_size)
    /\ pc' = "exit"
    /\ UNCHANGED <<vocab, vocab_size, encoder_dict, decoder_dict,
                   _temp_vocab, corpus, _counted_words, call, nops>>

\* self._update_vocab(_temp_vocab) and return (line 224)
TrainCommit ==
    /\ pc = "exit"
    /\ _update_vocab(_temp_vocab)
    /\ pc' = "idle"
    /\ _temp_vocab' = <<>>
    /\ corpus' = <<>>
    /\ _counted_words' = <<>>
    /\ UNCHANGED <<call, nops>>

TrainStep == TrainPass \/ TrainLoopEnd \/ TrainCommit

\* encode(text, pad_to_tokens)
Encode(text, pad_to_tokens) ==
    /\ pc = "idle"
    /\ call' = [op |-> "encode", text |-> text, pad_to_tokens |-> pad_to_tokens,
                result |-> encode(vocab, encoder_dict, text, pad_to_tokens)]
    /\ UNCHANGED <<vocab, vocab_size, encoder_dict, decoder_dict, pc,
                   _temp_vocab, corpus, _counted_words, nops>>

\* decode(tokens) on the tokens the last encode returned
Decode ==
    /\ pc = "idle"
    /\ call.op = "encode"
    /\ call.result.err = "none"
    /\ call' = [op |-> "decode", text |-> call.text, pad_to_tokens |-> call.pad_to_tokens,
                tokens |-> call.result.val,
                result |-> decode(decoder_dict, call.result.val)]
    /\ UNCHANGED <<vocab, vocab_size, encoder_dict, decoder_dict, pc,
                   _temp_vocab, corpus, _counted_words, nops>>

\* pad(tokens, desired_length)
Pad(tokens, desired_length) ==
    /\ pc = "idle"
    /\ call' = [op |-> "pad", tokens |-> tokens, desired_length |-> desired_length,
                result |-> pad(encoder_dict, tokens, desired_length)]
    /\ UNCHANGED <<vocab, vocab_size, encoder_dict, decoder_dict, pc,
                   _temp_vocab, corpus, _counted_words, nops>>

\* the operations that change the table
TableNext ==
    \/ \E ext \in ExternalVocabs : Load(ext)
    \/ \E corp \in Corpora, word_level \in BOOLEAN :
           \E n \in DesiredSizes(Len(vocab)) : TrainBegin(corp, n, word_level)
    \/ TrainPass
    \/ TrainLoopEnd
    \/ TrainCommit

TableSpec == Init /\ [][TableNext]_vars

\* the last call was encode, decode or pad
AfterCodec == call.op \in {"encode", "decode", "pad"}

\* Every operation: table updates and codec calls.  A codec call changes
\* nothing of the tokenizer, so whatever can follow it can follow the state
\* it was made in, with the same outcome: behaviours are not continued past
\* a codec call, except to decode what encode returned.
Next ==
    \/ ~AfterCodec /\ TableNext
    \/ ~AfterCodec /\ \E text \in Texts, pad_to_tokens \in PadTos : Encode(text, pad_to_tokens)
    \/ Decode
    \/ ~AfterCodec /\ \E tokens \in TokenLists, desired_length \in PadLengths :
                          Pad(tokens, desired_length)

Spec == Init /\ [][Next]_vars

\* train() is straight-line sequential code: once called it keeps running
TrainSpec == Init /\ [][TableNext]_vars /\ WF_vars(TrainStep)

----------------------------------------------------------------------------
(* Vocabulary used by the properties *)

Max(a, b) == IF a >= b THEN a ELSE b

HasMarker(text) ==
    \E p \in 0..Len(text) : startswith(From(text, p), _PAD) \/ startswith(From(text, p), _EOS)

\* text is a concatenation of symbols of K
RECURSIVE IsConcat(_, _)
IsConcat(text, K) ==
    \/ text = <<>>
    \/ \E k \in 1..Len(text) :
           SubSeq(text, 1, k) \in K /\ IsConcat(SubSeq(text, k + 1, Len(text)), K)

\* the learned (non-special) symbols in table order
Learned(v) == SelectSeq(KeyList(v), LAMBDA s : s \notin Specials)

HasForeign(v) == \E c \in ForeignChars : <<c>> \in Keys(v)

----------------------------------------------------------------------------
(* C1 *)

----------------------------------------------------------------------------
(* C2 *)

\* C2: size bounds of training. After train(corpus, n, word_level) returns
\* the live table holds at least as many symbols as before the call and at
\* most the target size, n clamped up to the size at the start of the call.
C2_TrainSizeBounds ==
    (pc = "idle" /\ call.op = "train")
        => /\ Len(vocab) >= call.len0
           /\ Len(vocab) <= Max(call.desired_vocab_size, call.len0)

----------------------------------------------------------------------------
(* C3 *)

\* C3: UNK substitution. encode never raises for an absent character; on a
\* table without multi-character learned symbols the result has exactly one
\* ID per character: UNK (-999) at the absent characters, the character's
\* own ID elsewhere (texts without a PAD / EOS marker).
C3_UnkPerCharacter ==
    (/\ call.op = "encode"
     /\ call.pad_to_tokens = 0
     /\ ~HasMarker(call.text)
     /\ \A k \in DOMAIN Learned(vocab) : Len(Learned(vocab)[k]) = 1)
        => /\ call.result.err = "none"
           /\ Len(call.result.val) = Len(call.text)
           /\ \A k \in DOMAIN call.text :
                  call.result.val[k] =
                      IF <<call.text[k]>> \in Keys(vocab)
                      THEN encoder_dict[<<call.text[k]>>] ELSE UNK_ID

----------------------------------------------------------------------------
(* C4 *)

\* C4: special-token interception. For every reachable table and every
\* text pre + "<|EOS|>" + post with pre non-empty, encode emits the tokens
\* of pre, then EOS (-2) once for the marker, then the tokens of post, and
\* no ID for the marker's own characters.
C4_EosInterception ==
    (call.op = "encode" /\ call.pad_to_tokens = 0 /\ call.result.err = "none")
        => \A p \in 1..Len(call.text) :
               LET pre  == Slice(call.text, 0, p)
                   post == From(call.text, p + Len(_EOS))
               IN  (/\ startswith(From(call.text, p), _EOS)
                    /\ ~HasMarker(pre)
                    /\ ~HasMarker(post))
                       => call.result.val =
                              encode(vocab, encoder_dict, pre, 0).val
                              \o <<EOS_ID>>
                              \o encode(vocab, encoder_dict, post, 0).val

----------------------------------------------------------------------------
(* C5 *)

\* what the padding contract allows as the outcome r of padding tokens to n
PadOutcome(tokens, n, r) ==
    IF Len(tokens) + 2 < n
    THEN /\ r.err = "none"
         /\ Len(r.val) = n
         /\ r.val[1] = SOS_ID
         /\ SubSeq(r.val, 2, Len(tokens) + 1) = tokens
         /\ r.val[Len(tokens) + 2] = EOS_ID
         /\ \A k \in (Len(tokens) + 3)..n : r.val[k] = PAD_ID
    ELSE r = Raise("ValueError")

\* C5: padding. pad(tokens, n) with len(tokens)+2 < n returns exactly n
\* entries: SOS, the tokens in order, EOS, then only PAD; otherwise it raises
\* and returns nothing. encode(text, pad_to_tokens = n), n > 0, has the same
\* outcome on the encoded tokens.
C5_Padding ==
    /\ call.op = "pad" => PadOutcome(call.tokens, call.desired_length, call.result)
    /\ (call.op = "encode" /\ call.pad_to_tokens > 0)
           => PadOutcome(encode_loop(vocab, encoder_dict, call.text, 0, 0, FALSE, <<>>),
                         call.pad_to_tokens, call.result)

\* encode padded a two-token text to 4... which must raise, and a one-token
\* text, which must not
C5_Witness ==
    /\ call.op = "encode"
    /\ call.pad_to_tokens = 4
    /\ call.result.err = "none"
    /\ Len(call.text) = 1
    /\ Len(vocab) > Len(_init_vocab)

----------------------------------------------------------------------------
(* C6 *)

----------------------------------------------------------------------------
(* C7 *)

\* C7: merge_in is additive. A load adds each count of the external mapping
\* to the stored frequency of a symbol already in the table, creates the
\* others with their count, and leaves every other symbol's frequency alone.
C7_MergeInAdditive ==
    [][(call'.op = "load" /\ nops' = nops + 1)
        => LET ext == call'.vocab
           IN  /\ \A k \in DOMAIN ext :
                      /\ ext[k].key \in Keys(vocab')
                      /\ Get(vocab', ext[k].key) =
                             IF ext[k].key \in Keys(vocab)
                             THEN Get(vocab, ext[k].key) + ext[k].value
                             ELSE ext[k].value
               /\ \A s \in Keys(vocab) \ Keys(ext) : Get(vocab', s) = Get(vocab, s)]_vars

----------------------------------------------------------------------------
(* C8 *)

AAAB == << <<"a", "a", "a", "b">> >>

\* a pass with candidates appends the first candidate of the largest tally
PassSelects ==
    (pc = "loop" /\ Len(_temp_vocab) < call.desired_vocab_size /\ PassFreqs # <<>>)
        => LET word_freqs == PassFreqs
               new == _temp_vocab'[Len(_temp_vocab')]
           IN  /\ Len(_temp_vocab') = Len(_temp_vocab) + 1
               /\ SubSeq(_temp_vocab', 1, Len(_temp_vocab)) = _temp_vocab
               /\ \E k \in DOMAIN word_freqs :
                      /\ new = word_freqs[k]
                      /\ \A m \in DOMAIN word_freqs :
                             /\ word_freqs[m].value <= word_freqs[k].value
                             /\ m < k => word_freqs[m].value < word_freqs[k].value

\* train(["aaab"], initial size + 1, word_level = False) on a table of the
\* initial size adds exactly "aa"
AaabAddsAa ==
    (/\ pc = "idle"
     /\ call.op = "train"
     /\ call.corpus = AAAB
     /\ ~call.word_level
     /\ call.len0 = Len(_init_vocab)
     /\ call.desired_vocab_size = Len(_init_vocab) + 1)
        => Keys(vocab) = Keys(_init_vocab) \cup {<<"a", "a">>}

\* C8: merge selection. Every iteration of the training loop inserts the
\* candidate of the highest tally of that pass, the first recorded among
\* equals, with the tally as its frequency; "aaab" at initial size + 1,
\* word_level false, adds exactly "aa".
C8_MergeSelection == [][PassSelects]_vars /\ []AaabAddsAa

\* a pass broke a tie: "aaab" gave "aaa" and "ab" one tally each
C8_Witness ==
    /\ pc = "loop"
    /\ call.corpus = AAAB
    /\ Len(_temp_vocab) = call.len0 + 2
    /\ _temp_vocab[Len(_temp_vocab)] = [key |-> <<"a", "a", "a">>, value |-> 1]

----------------------------------------------------------------------------
(* C9 *)

\* an iteration either inserts a symbol the working table did not hold or
\* finds no candidate and leaves the loop
PassProgress ==
    (pc = "loop" /\ Len(_temp_vocab) < call.desired_vocab_size)
        => \/ /\ pc' = "loop"
              /\ Len(_temp_vocab') = Len(_temp_vocab) + 1
              /\ _temp_vocab'[Len(_temp_vocab')].key \notin Keys(_temp_vocab)
           \/ /\ PassFreqs = <<>>
              /\ pc' = "exit"
              /\ _temp_vocab' = _temp_vocab

\* leaving the loop is followed by the one commit of the working table
CommitOnce ==
    pc = "exit"
        => /\ pc' = "idle"
           /\ Keys(vocab') = Keys(vocab) \cup Keys(_temp_vocab)
           /\ \A s \in Keys(_temp_vocab) : Get(vocab', s) = Get(_temp_vocab, s)

\* C9: training terminates. Every train call returns; each iteration of its
\* loop inserts a new symbol into the working table or finds no candidate
\* and stops; on exit the working table is committed once.
C9_TrainTerminates ==
    /\ (pc # "idle") ~> (pc = "idle")
    /\ [][PassProgress]_vars
    /\ [][CommitOnce]_vars

\* a train returned early, below its target, for want of candidates
C9_Witness ==
    /\ pc = "idle"
    /\ call.op = "train"
    /\ Len(vocab) < call.desired_vocab_size

----------------------------------------------------------------------------
(* C10 *)

====
